---------------------------- MODULE Spec2Model ----------------------------
(***************************************************************************)
(* peon-ping-go: the action bar session registry (.actionbar.json, written *)
(* under an exclusive flock with write-tmp-then-rename) and the permission *)
(* request / response rendezvous between a blocked hook process and the    *)
(* action bar helper (UI) process.                                         *)
(*                                                                         *)
(* Time is in milliseconds.  Computation steps take no time: the clock     *)
(* advances only when no registry call is in progress, and a sleeping hook *)
(* wakes no earlier than its wake time.                                    *)
(*                                                                         *)
(* The specifications share the variables:                                 *)
(*   SpecReg      registry callers at the granularity of modifyActionBar's *)
(*                system calls (open, flock, read, write tmp, rename,      *)
(*                unlock), with a UI reader sampling the file at any point;*)
(*   SpecDamaged  SpecReg with a registry file that gets deleted or        *)
(*                corrupted between calls;                                 *)
(*   Spec         the rendezvous: permission hooks, event hooks and the    *)
(*                UI, each registry call one step (the flock serialises    *)
(*                them);                                                   *)
(*   SpecOps      sequences of registry calls, one step each;              *)
(*   SpecUI       the UI's timer-driven reads of a changing registry;      *)
(*   SpecEvents   main() for the hook events other than PermissionRequest; *)
(*   SpecRepoll   the UI's reads while permission hooks come and go;       *)
(*   SpecWait     the poll loop of the permission hooks against the TTL    *)
(*                pruning of the other sessions' upserts;                  *)
(*   SpecLocks    main() with the flock on .state.json and the registry    *)
(*                lock, under fair scheduling;                             *)
(*   SpecStale    the UI's reads of a registry whose records age.          *)
(***************************************************************************)
EXTENDS Integers, Sequences, FiniteSets, TLC

VARIABLES
    now,          \* wall clock, ms
    advances,     \* number of clock advances so far (bounded)
    regFile,      \* content of .actionbar.json
    tmpFile,      \* content of .actionbar.json.tmp
    lockHolder,   \* process holding the flock on .actionbar.lock, 0 = none
    rpc,          \* registry caller: position inside modifyActionBar
    rop,          \* registry caller: the operation it was started with
    rabs,         \* registry caller: local abs (after fn)
    rloaded,      \* registry caller: the document it loaded under the lock
    racquired,    \* registry caller: "no", "waiting" (it found the lock held),
                  \* "alone" (acquired at once), "contended" (acquired
                  \* after waiting for another holder)
    rcalledAt,    \* history: the time the call was made
    persisted,    \* history: the document persisted by the latest lock holder
    uiRaw,        \* raw bytes the UI read of the registry file returned last
    uiMid,        \* history: that read was taken while a writer was mid-write
    rspFile,      \* per session: content of .actionbar-rsp-<id>.json
    hbFile,       \* per session: mtime of .actionbar-hb-<id>, -1 = no file
    hpc,          \* permission hook: position in handlePermissionRequest
    hsid,         \* permission hook: payload.SessionID
    htool,        \* permission hook: payload.ToolName
    hdeadline,    \* permission hook: deadline
    hwake,        \* permission hook: end of the current time.Sleep
    hrsp,         \* permission hook: rsp, as read from the response file
    hout,         \* permission hook: the decision printed on stdout
    hupdated,     \* permission hook: the decision carries updatedPermissions
    hanswered,    \* history: responses the UI issued while this hook waited
    overlapped,   \* history: hooks that ran while another hook of the same
                  \* session was running
    abSlots,      \* UI: abSlots
    abSelectedSlot,    \* UI: abSelectedSlot, 1-based, 0 = no selection (-1)
    abSelectedSessID,  \* UI: abSelectedSessID, 0 = ""
    abPendingSlots,    \* UI: abPendingSlots
    abBgRunning,  \* UI: abBgRunning
    wmUser,       \* UI: a WM_USER message is queued
    abSeq,        \* history: the number of the read whose result is in
                  \* abPendingSlots and of the read applied last
    writers,      \* UI: response-writer goroutines in flight
    nresponses,   \* history: responses issued so far (bounded)
    npolls,       \* history: UI timer ticks so far (bounded)
    nevents,      \* history: event hook invocations so far (bounded)
    lastEvent,    \* history: the payload of the latest event hook invocation
    agentSessions, \* .state.json: State.AgentSessions
    stateLock,    \* process holding the flock on .state.json, 0 = none
    mpc           \* hook process: position in main()

\* state of the registry callers of SpecReg
callerVars == <<tmpFile, lockHolder, rpc, rop, rabs, rloaded, racquired,
                rcalledAt, persisted, uiRaw, uiMid>>

\* state of the permission hooks
hookVars == <<hpc, hsid, htool, hdeadline, hwake, hrsp, hout, hupdated,
              hanswered, overlapped>>

\* state of the UI process
uiVars == <<abSlots, abSelectedSlot, abSelectedSessID, abPendingSlots,
            abBgRunning, wmUser, abSeq, writers, nresponses>>

\* everything the rendezvous adds to the registry
rvVars == <<rspFile, hbFile, hookVars, uiVars, npolls, nevents, lastEvent,
            agentSessions, stateLock, mpc>>

-----------------------------------------------------------------------------
(* Bounds of the model *)
NumSessions == 2
NumCallers == 2
MaxAdvances == 2
NumHooks == 2
NumRvSessions == 1
MaxResponses == 2
MaxPolls == 1
MaxEvents == 1
MaxTicks == 1

(* Program constants *)
SessionTTL == 600
PollInterval == 500
HeartbeatFresh == 3000
PermissionDeadline == 300000
abMaxSlots == 7

Sessions == 1..NumSessions
Callers == 1..NumCallers
Hooks == 1..NumHooks
\* the sessions the rendezvous specification runs hooks for
RvSessions == 1..NumRvSessions
Statuses == {"ready", "working", "done", "needs approval"}
ToolNames == {"Bash"}

\* clock jumps between registry calls: one second, and the session TTL
RegJumps == {1000, SessionTTL * 1000}

\* time.Now().Unix()
Unix(t) == t \div 1000

-----------------------------------------------------------------------------
(* Files *)
NoFile == [kind |-> "missing", sessions |-> << >>]
Partial == [kind |-> "partial", sessions |-> << >>]
Doc(m) == [kind |-> "doc", sessions |-> m]

EmptyMap == << >>

\* a map without key k
Without(m, k) == [x \in DOMAIN m \ {k} |-> m[x]]

\* a map with key k set to v
With(m, k, v) == [x \in DOMAIN m \cup {k} |-> IF x = k THEN v ELSE m[x]]

\* event.Message of the hook that upserts: in this model the events routed
\* to "done" carry a message and the others carry none
EventMessage(state) == IF state = "done" THEN "msg" ELSE ""

\* ActionBarSession, as writeActionBarSession builds it: no ToolInput.  The
\* project and the window handle are those of the session's terminal.
Session(sid, state, tool, at) ==
    [Project |-> sid, State |-> state, Message |-> EventMessage(state),
     HWND |-> sid, UpdatedAt |-> at, ToolName |-> tool, ToolInput |-> ""]

\* the response file: missing, created but still empty, or written.
\* id and after are history: which response this is, and the hooks whose
\* request was pending when it was written.
NoRsp == [kind |-> "missing", behavior |-> "", apply |-> FALSE, id |-> 0,
          after |-> {}]
PartialRsp == [kind |-> "partial", behavior |-> "", apply |-> FALSE, id |-> 0,
               after |-> {}]
Rsp(b, a, i, ps) == [kind |-> "doc", behavior |-> b, apply |-> a, id |-> i,
                     after |-> ps]

\* a slice of slots: nil, or the slots
Nil == [nil |-> TRUE, slots |-> << >>]
Slots(q) == [nil |-> FALSE, slots |-> q]

\* os.ReadFile + json.Unmarshal in modifyActionBar: a missing or corrupt
\* file leaves abs.Sessions nil, which becomes the empty map
\* a load that recovers a default session from a file it cannot parse
LoadDocRecovering(file) ==
    IF file.kind = "doc" THEN file.sessions
    ELSE With(EmptyMap, 1, Session(1, "working", "", 0))

LoadDoc(file) == IF file.kind = "doc" THEN file.sessions ELSE EmptyMap

-----------------------------------------------------------------------------
(* The four mutations (the fn passed to modifyActionBar) *)

\* a pruning that already drops a record exactly 600 seconds old
PruneKeepsBelow(abs, t) ==
    {id \in DOMAIN abs : Unix(t) - abs[id].UpdatedAt < SessionTTL}

\* the records the pruning loop of writeActionBarSession does not delete
PruneKeeps(abs, t) == {id \in DOMAIN abs : ~(Unix(t) - abs[id].UpdatedAt > SessionTTL)}

\* an upsert that keeps the tool details of the record it replaces
writeActionBarSessionKeepingFn(abs, sid, state, t) ==
    LET kept == [id \in PruneKeeps(abs, t) |-> abs[id]]
        tool == IF sid \in DOMAIN abs THEN abs[sid].ToolName ELSE ""
    IN  With(kept, sid, Session(sid, state, tool, Unix(t)))

\* the fn of writeActionBarSession: prune, then set the record anew
writeActionBarSessionFn(abs, sid, state, t) ==
    LET kept == [id \in PruneKeeps(abs, t) |-> abs[id]]
    IN  With(kept, sid, Session(sid, state, "", Unix(t)))

\* a remove that also prunes the records older than the TTL
removeActionBarSessionPruningFn(abs, sid) ==
    Without([id \in PruneKeeps(abs, now) |-> abs[id]], sid)

removeActionBarSessionFn(abs, sid) == Without(abs, sid)

\* a set_permission_pending that creates the record of an absent session
updateActionBarPermissionCreatingFn(abs, sid, tool, input, t) ==
    With(abs, sid, Session(sid, "needs approval", tool, Unix(t)))

\* a set_permission_pending that leaves updated_at as it was
updateActionBarPermissionStaleFn(abs, sid, tool, input, t) ==
    IF sid \notin DOMAIN abs THEN abs
    ELSE [abs EXCEPT ![sid] = [@ EXCEPT !.State = "needs approval",
                                        !.ToolName = tool,
                                        !.ToolInput = input]]

updateActionBarPermissionFn(abs, sid, tool, input, t) ==
    IF sid \notin DOMAIN abs THEN abs
    ELSE [abs EXCEPT ![sid] = [@ EXCEPT !.State = "needs approval",
                                        !.ToolName = tool,
                                        !.ToolInput = input,
                                        !.UpdatedAt = Unix(t)]]

\* a clear_permission_pending that resets the status only
clearActionBarPermissionStatusOnlyFn(abs, sid, t) ==
    IF sid \notin DOMAIN abs THEN abs
    ELSE [abs EXCEPT ![sid] = [@ EXCEPT !.State = "working",
                                        !.UpdatedAt = Unix(t)]]

\* a clear_permission_pending that also blanks the message of the record
clearActionBarPermissionBlankingFn(abs, sid, t) ==
    IF sid \notin DOMAIN abs THEN abs
    ELSE [abs EXCEPT ![sid] = [@ EXCEPT !.State = "working",
                                        !.Message = "",
                                        !.ToolName = "",
                                        !.ToolInput = "",
                                        !.UpdatedAt = Unix(t)]]

clearActionBarPermissionFn(abs, sid, t) ==
    IF sid \notin DOMAIN abs THEN abs
    ELSE [abs EXCEPT ![sid] = [@ EXCEPT !.State = "working",
                                        !.ToolName = "",
                                        !.ToolInput = "",
                                        !.UpdatedAt = Unix(t)]]

Ops ==
    [kind : {"upsert"}, sid : Sessions, state : Statuses, tool : {""},
     input : {""}]
    \cup [kind : {"remove", "clear"}, sid : Sessions, state : {""},
          tool : {""}, input : {""}]
    \cup [kind : {"set"}, sid : Sessions, state : {""}, tool : ToolNames,
          input : {"ls"}]

NoOp == [kind |-> "none", sid |-> 0, state |-> "", tool |-> "", input |-> ""]

ApplyFn(op, abs, t) ==
    CASE op.kind = "upsert" -> writeActionBarSessionFn(abs, op.sid, op.state, t)
      [] op.kind = "remove" -> removeActionBarSessionFn(abs, op.sid)
      [] op.kind = "set"    -> updateActionBarPermissionFn(abs, op.sid, op.tool,
                                                           op.input, t)
      [] op.kind = "clear"  -> clearActionBarPermissionFn(abs, op.sid, t)
      [] OTHER -> abs

-----------------------------------------------------------------------------
(* modifyActionBar, one system call per step *)

\* a hook process is started with a registry operation to perform
Call(p, op) ==
    /\ rpc[p] = "idle"
    /\ rpc' = [rpc EXCEPT ![p] = "open"]
    /\ rop' = [rop EXCEPT ![p] = op]
    /\ rcalledAt' = [rcalledAt EXCEPT ![p] = now]
    /\ racquired' = [racquired EXCEPT ![p] =
            IF lockHolder # 0 THEN "waiting" ELSE "no"]
    /\ UNCHANGED <<now, advances, regFile, tmpFile, lockHolder, rabs, rloaded,
                   persisted, uiRaw, uiMid, rvVars>>

\* a lock failure after which the mutation is applied without the lock
LockFailWriting(p) ==
    /\ rpc[p] = "open"
    /\ rpc' = [rpc EXCEPT ![p] = "done"]
    /\ regFile' = Doc(ApplyFn(rop[p], LoadDoc(regFile), now))
    /\ UNCHANGED <<now, advances, tmpFile, lockHolder, rop, rabs,
                   rloaded, racquired, rcalledAt, persisted, uiRaw, uiMid, rvVars>>

\* os.OpenFile(lockPath) or syscall.Flock fails: return, nothing written
LockFail(p) ==
    /\ rpc[p] = "open"
    /\ rpc' = [rpc EXCEPT ![p] = "done"]
    /\ UNCHANGED <<now, advances, regFile, tmpFile, lockHolder, rop, rabs,
                   rloaded, racquired, rcalledAt, persisted, uiRaw, uiMid, rvVars>>

FlockNoWait(p) == TRUE

\* syscall.Flock(LOCK_EX) blocks until no other process holds the lock
FlockFree(p) == lockHolder = 0

Flock(p) ==
    /\ rpc[p] = "open"
    /\ FlockFree(p)
    /\ lockHolder' = p
    /\ racquired' = [q \in Callers |->
            IF q = p
            THEN (IF racquired[p] = "waiting" THEN "contended" ELSE "alone")
            ELSE IF rpc[q] = "open" THEN "waiting" ELSE racquired[q]]
    /\ rpc' = [rpc EXCEPT ![p] = "locked"]
    /\ UNCHANGED <<now, advances, regFile, tmpFile, rop, rabs, rloaded,
                   rcalledAt, persisted, uiRaw, uiMid, rvVars>>

\* os.ReadFile(abPath), json.Unmarshal, fn(&abs)
LoadAndApply(p) ==
    /\ rpc[p] = "locked"
    /\ rloaded' = [rloaded EXCEPT ![p] = LoadDoc(regFile)]
    /\ rabs' = [rabs EXCEPT ![p] = ApplyFn(rop[p], LoadDoc(regFile), now)]
    /\ rpc' = [rpc EXCEPT ![p] = "loaded"]
    /\ UNCHANGED <<now, advances, regFile, tmpFile, lockHolder, rop, racquired,
                   rcalledAt, persisted, uiRaw, uiMid, rvVars>>

\* a (buggy) writer that opens the registry path itself for writing
WriteInPlaceOpen(p) ==
    /\ regFile' = Partial
    /\ UNCHANGED tmpFile

\* atomicWriteFile: os.WriteFile(tmp) first creates or truncates the tmp file
WriteOpen(p) ==
    /\ tmpFile' = Partial
    /\ UNCHANGED regFile

WriteTmpOpen(p) ==
    /\ rpc[p] = "loaded"
    /\ WriteOpen(p)
    /\ rpc' = [rpc EXCEPT ![p] = "tmpopen"]
    /\ UNCHANGED <<now, advances, lockHolder, rop, rabs, rloaded, racquired,
                   rcalledAt, persisted, uiRaw, uiMid, rvVars>>

\* ... then writes the marshalled document into it
WriteTmpData(p) ==
    /\ rpc[p] = "tmpopen"
    /\ tmpFile' = Doc(rabs[p])
    /\ rpc' = [rpc EXCEPT ![p] = "tmpfull"]
    /\ UNCHANGED <<now, advances, regFile, lockHolder, rop, rabs, rloaded,
                   racquired, rcalledAt, persisted, uiRaw, uiMid, rvVars>>

\* os.Rename(tmp, path)
Rename(p) ==
    /\ rpc[p] = "tmpfull"
    /\ regFile' = Doc(rabs[p])
    /\ tmpFile' = NoFile
    /\ persisted' = rabs[p]
    /\ rpc' = [rpc EXCEPT ![p] = "renamed"]
    /\ UNCHANGED <<now, advances, lockHolder, rop, rabs, rloaded, racquired,
                   rcalledAt, uiRaw, uiMid, rvVars>>

\* deferred syscall.Flock(LOCK_UN); f.Close()
Unlock(p) ==
    /\ rpc[p] = "renamed"
    /\ lockHolder' = 0
    /\ rpc' = [rpc EXCEPT ![p] = "done"]
    /\ rabs' = [rabs EXCEPT ![p] = EmptyMap]
    /\ rloaded' = [rloaded EXCEPT ![p] = EmptyMap]
    /\ UNCHANGED <<now, advances, regFile, tmpFile, rop, racquired,
                   rcalledAt, persisted, uiRaw, uiMid, rvVars>>

\* abDoRead's os.ReadFile(abStateFile), sampled at any point
UIReadFile ==
    /\ uiRaw' = regFile
    /\ uiMid' = (\E p \in Callers : rpc[p] \in {"tmpopen", "tmpfull"})
    /\ UNCHANGED <<now, advances, regFile, tmpFile, lockHolder, rpc, rop, rabs,
                   rloaded, racquired, rcalledAt, persisted, rvVars>>

InCall(p) == rpc[p] \notin {"idle", "done"}

\* the clock advances while no registry call is in progress
AdvanceReg ==
    /\ advances < MaxAdvances
    /\ \A p \in Callers : ~InCall(p)
    /\ \E d \in RegJumps : now' = now + d
    /\ advances' = advances + 1
    /\ UNCHANGED <<regFile, callerVars, rvVars>>

\* no event hook has run yet
NoEvent == [name |-> "", notif |-> "", sid |-> 0, pass |-> FALSE, mode |-> ""]

\* no response, no heartbeat, no permission hook started, the UI not polling
InitRv ==
    /\ rspFile = [s \in Sessions |-> NoRsp]
    /\ hbFile = [s \in Sessions |-> -1]
    /\ hpc = [p \in Hooks |-> "idle"]
    /\ hsid = [p \in Hooks |-> 0]
    /\ htool = [p \in Hooks |-> ""]
    /\ hdeadline = [p \in Hooks |-> 0]
    /\ hwake = [p \in Hooks |-> 0]
    /\ hrsp = [p \in Hooks |-> NoRsp]
    /\ hout = [p \in Hooks |-> ""]
    /\ hupdated = [p \in Hooks |-> FALSE]
    /\ hanswered = [p \in Hooks |-> 0]
    /\ overlapped = {}
    /\ abSlots = << >>
    /\ abSelectedSlot = 0
    /\ abSelectedSessID = 0
    /\ abPendingSlots = Nil
    /\ abBgRunning = 0
    /\ wmUser = FALSE
    /\ abSeq = [pending |-> 0, applied |-> 0]
    /\ writers = {}
    /\ nresponses = 0
    /\ npolls = 0
    /\ nevents = 0
    /\ lastEvent = NoEvent
    /\ agentSessions = {}
    /\ stateLock = 0
    /\ mpc = [p \in Callers |-> "idle"]

InitReg ==
    /\ InitRv
    /\ now = 0
    /\ advances = 0
    /\ regFile = NoFile
    /\ tmpFile = NoFile
    /\ lockHolder = 0
    /\ rpc = [p \in Callers |-> "idle"]
    /\ rop = [p \in Callers |-> NoOp]
    /\ rabs = [p \in Callers |-> EmptyMap]
    /\ rloaded = [p \in Callers |-> EmptyMap]
    /\ racquired = [p \in Callers |-> "no"]
    /\ rcalledAt = [p \in Callers |-> 0]
    /\ persisted = EmptyMap
    /\ uiRaw = NoFile
    /\ uiMid = FALSE

NextReg ==
    \/ \E p \in Callers, op \in Ops : Call(p, op)
    \/ \E p \in Callers : LockFail(p)
    \/ \E p \in Callers : Flock(p)
    \/ \E p \in Callers : LoadAndApply(p)
    \/ \E p \in Callers : WriteTmpOpen(p)
    \/ \E p \in Callers : WriteTmpData(p)
    \/ \E p \in Callers : Rename(p)
    \/ \E p \in Callers : Unlock(p)
    \/ UIReadFile
    \/ AdvanceReg

vars == <<now, advances, regFile, callerVars, rvVars>>

SpecReg == InitReg /\ [][NextReg]_vars

-----------------------------------------------------------------------------
(* Registry calls of the rendezvous specification: one step each.  The     *)
(* flock makes each modifyActionBar call atomic with respect to the others *)
(* and the rename makes it atomic with respect to readers.                 *)

modifyActionBar(op) ==
    /\ lockHolder = 0
    /\ regFile' = Doc(ApplyFn(op, LoadDoc(regFile), now))

Registry == LoadDoc(regFile)

-----------------------------------------------------------------------------
(* handlePermissionRequest, one system call per step *)

\* the hook has set its request pending and has not read a response yet
Waiting(p) == hpc[p] \in {"hb", "sleep", "read"}

\* the process is running
Alive(p) == hpc[p] \notin {"idle", "resolved", "timedout", "killed"}

\* a hook that empties a stale response file in place instead of removing it
StartHookTruncating(p, s, tool) ==
    /\ hpc[p] = "idle"
    /\ hsid' = [hsid EXCEPT ![p] = s]
    /\ htool' = [htool EXCEPT ![p] = tool]
    /\ rspFile' = [rspFile EXCEPT ![s] = PartialRsp]
    /\ hpc' = [hpc EXCEPT ![p] = "set"]
    /\ UNCHANGED <<now, advances, regFile, callerVars, hbFile, hdeadline,
                   hwake, hrsp, hout, hupdated, hanswered, overlapped, uiVars, npolls,
                   nevents, lastEvent, agentSessions, stateLock, mpc>>

\* a PermissionRequest event arrives: main() calls handlePermissionRequest,
\* which first cleans up any stale response file: os.Remove(rspPath)
StartHook(p, s, tool) ==
    /\ hpc[p] = "idle"
    /\ hsid' = [hsid EXCEPT ![p] = s]
    /\ htool' = [htool EXCEPT ![p] = tool]
    /\ rspFile' = [rspFile EXCEPT ![s] = NoRsp]
    /\ hpc' = [hpc EXCEPT ![p] = "set"]
    /\ overlapped' =
          LET others == {q \in Hooks \ {p} : Alive(q) /\ hsid[q] = s}
          IN  IF others = {} THEN overlapped
              ELSE overlapped \cup others \cup {p}
    /\ UNCHANGED <<now, advances, regFile, callerVars, hbFile, hdeadline,
                   hwake, hrsp, hout, hupdated, hanswered, uiVars, npolls, nevents, lastEvent, agentSessions, stateLock, mpc>>

\* payload.ToolInput: the command the hook asks permission for; every odd
\* hook asks for "ls", every even hook for "rm"
ToolInput(p) == IF p % 2 = 1 THEN "ls" ELSE "rm"

\* updateActionBarPermission
SetPending(p) ==
    /\ hpc[p] = "set"
    /\ modifyActionBar([kind |-> "set", sid |-> hsid[p], state |-> "",
                        tool |-> htool[p], input |-> ToolInput(p)])
    /\ hpc' = [hpc EXCEPT ![p] = "hb"]
    /\ UNCHANGED <<now, advances, callerVars, rspFile, hbFile, hsid, htool,
                   hdeadline, hwake, hrsp, hout, hupdated, hanswered, overlapped, uiVars, npolls,
                   nevents, lastEvent, agentSessions, stateLock, mpc>>

\* os.WriteFile(heartbeatPath, nil); deadline := time.Now().Add(5 * time.Minute);
\* the first loop test holds and the first time.Sleep(500ms) begins
CreateHeartbeat(p) ==
    /\ hpc[p] = "hb"
    /\ hbFile' = [hbFile EXCEPT ![hsid[p]] = now]
    /\ hdeadline' = [hdeadline EXCEPT ![p] = now + PermissionDeadline]
    /\ hwake' = [hwake EXCEPT ![p] = now + PollInterval]
    /\ hpc' = [hpc EXCEPT ![p] = "sleep"]
    /\ UNCHANGED <<now, advances, regFile, callerVars, rspFile, hsid, htool,
                   hrsp, hout, hupdated, hanswered, overlapped, uiVars, npolls,
                   nevents, lastEvent, agentSessions, stateLock, mpc>>

\* a poll loop that does not touch the heartbeat
TouchSkipped(p) ==
    /\ hpc[p] = "sleep"
    /\ now >= hwake[p]
    /\ hpc' = [hpc EXCEPT ![p] = "read"]
    /\ UNCHANGED <<now, advances, regFile, callerVars, rspFile, hbFile, hsid,
                   htool, hdeadline, hwake, hrsp, hout, hupdated, hanswered, overlapped,
                   uiVars, npolls, nevents, lastEvent, agentSessions, stateLock, mpc>>

\* the sleep is over; os.Chtimes(heartbeatPath, now, now) touches the
\* heartbeat, and fails without creating it when the file is gone
Touch(p) ==
    /\ hpc[p] = "sleep"
    /\ now >= hwake[p]
    /\ hbFile' = [hbFile EXCEPT ![hsid[p]] = IF @ = -1 THEN -1 ELSE now]
    /\ hpc' = [hpc EXCEPT ![p] = "read"]
    /\ UNCHANGED <<now, advances, regFile, callerVars, rspFile, hsid, htool,
                   hdeadline, hwake, hrsp, hout, hupdated, hanswered, overlapped, uiVars, npolls,
                   nevents, lastEvent, agentSessions, stateLock, mpc>>

\* a poll that takes whatever the response file holds, parsed or not
ReadResponseAny(p) ==
    /\ hpc[p] = "read"
    /\ rspFile[hsid[p]].kind # "missing"
    /\ hrsp' = [hrsp EXCEPT ![p] = rspFile[hsid[p]]]
    /\ hpc' = [hpc EXCEPT ![p] = "rmrsp"]
    /\ UNCHANGED <<now, advances, regFile, callerVars, rspFile, hbFile, hsid,
                   htool, hdeadline, hwake, hout, hupdated, hanswered,
                   overlapped, uiVars, npolls, nevents, lastEvent,
                   agentSessions, stateLock, mpc>>

\* os.ReadFile(rspPath) and json.Unmarshal succeed
ReadResponse(p) ==
    /\ hpc[p] = "read"
    /\ rspFile[hsid[p]].kind = "doc"
    /\ hrsp' = [hrsp EXCEPT ![p] = rspFile[hsid[p]]]
    /\ hpc' = [hpc EXCEPT ![p] = "rmrsp"]
    /\ UNCHANGED <<now, advances, regFile, callerVars, rspFile, hbFile, hsid,
                   htool, hdeadline, hwake, hout, hupdated, hanswered, overlapped, uiVars, npolls,
                   nevents, lastEvent, agentSessions, stateLock, mpc>>

\* a poll loop without the deadline test
ReadMissForever(p) ==
    /\ hpc[p] = "read"
    /\ rspFile[hsid[p]].kind # "doc"
    /\ hwake' = [hwake EXCEPT ![p] = now + PollInterval]
    /\ hpc' = [hpc EXCEPT ![p] = "sleep"]
    /\ UNCHANGED <<now, advances, regFile, callerVars, rspFile, hbFile, hsid,
                   htool, hdeadline, hrsp, hout, hupdated, hanswered,
                   overlapped, uiVars, npolls, nevents, lastEvent, agentSessions, stateLock, mpc>>

\* the file is missing or does not parse: continue; the loop test
\* time.Now().Before(deadline) holds and the next time.Sleep begins
ReadMiss(p) ==
    /\ hpc[p] = "read"
    /\ rspFile[hsid[p]].kind # "doc"
    /\ now < hdeadline[p]
    /\ hwake' = [hwake EXCEPT ![p] = now + PollInterval]
    /\ hpc' = [hpc EXCEPT ![p] = "sleep"]
    /\ UNCHANGED <<now, advances, regFile, callerVars, rspFile, hbFile, hsid,
                   htool, hdeadline, hrsp, hout, hupdated, hanswered, overlapped, uiVars, npolls,
                   nevents, lastEvent, agentSessions, stateLock, mpc>>

\* the file is missing or does not parse and the deadline has passed: the
\* loop ends and os.Exit(0) ends the process at once.  os.Exit does not run
\* deferred functions, so the deferred os.Remove(heartbeatPath) and
\* clearActionBarPermission do not run.
Timeout(p) ==
    /\ hpc[p] = "read"
    /\ rspFile[hsid[p]].kind # "doc"
    /\ ~(now < hdeadline[p])
    /\ hpc' = [hpc EXCEPT ![p] = "timedout"]
    /\ hdeadline' = [hdeadline EXCEPT ![p] = 0]
    /\ hwake' = [hwake EXCEPT ![p] = 0]
    /\ UNCHANGED <<now, advances, regFile, callerVars, rspFile, hbFile, hsid,
                   htool, hrsp, hout, hupdated, hanswered, overlapped, uiVars, npolls,
                   nevents, lastEvent, agentSessions, stateLock, mpc>>

\* os.Remove(rspPath)
RemoveResponse(p) ==
    /\ hpc[p] = "rmrsp"
    /\ rspFile' = [rspFile EXCEPT ![hsid[p]] = NoRsp]
    /\ hpc' = [hpc EXCEPT ![p] = "clear"]
    /\ UNCHANGED <<now, advances, regFile, callerVars, hbFile, hsid, htool,
                   hdeadline, hwake, hrsp, hout, hupdated, hanswered, overlapped, uiVars, npolls,
                   nevents, lastEvent, agentSessions, stateLock, mpc>>

\* payload.PermissionSuggestions is not empty: the request of hook 1 (of
\* every odd hook) carries suggestions, the request of hook 2 carries none
HasSuggestions(p) == p % 2 = 1

\* a decision that takes the suggestions whenever the request carries some
UpdatedPermissionsAlways(rsp, p) == HasSuggestions(p)

\* the decision gets UpdatedPermissions = payload.PermissionSuggestions
UpdatedPermissions(rsp, p) == rsp.apply /\ HasSuggestions(p)

\* clearActionBarPermission; fmt.Println(decision); os.Exit(0), again
\* without the deferred cleanup
ClearAndEmit(p) ==
    /\ hpc[p] = "clear"
    /\ modifyActionBar([kind |-> "clear", sid |-> hsid[p], state |-> "",
                        tool |-> "", input |-> ""])
    /\ hout' = [hout EXCEPT ![p] = hrsp[p].behavior]
    /\ hupdated' = [hupdated EXCEPT ![p] = UpdatedPermissions(hrsp[p], p)]
    /\ hpc' = [hpc EXCEPT ![p] = "resolved"]
    /\ hdeadline' = [hdeadline EXCEPT ![p] = 0]
    /\ hwake' = [hwake EXCEPT ![p] = 0]
    /\ UNCHANGED <<now, advances, callerVars, rspFile, hbFile, hsid, htool,
                   hrsp, hanswered, overlapped, uiVars, npolls,
                   nevents, lastEvent, agentSessions, stateLock, mpc>>

\* the process is killed from outside while it waits
Kill(p) ==
    /\ Waiting(p)
    /\ hpc' = [hpc EXCEPT ![p] = "killed"]
    /\ hdeadline' = [hdeadline EXCEPT ![p] = 0]
    /\ hwake' = [hwake EXCEPT ![p] = 0]
    /\ hrsp' = [hrsp EXCEPT ![p] = NoRsp]
    /\ UNCHANGED <<now, advances, regFile, callerVars, rspFile, hbFile, hsid,
                   htool, hout, hupdated, hanswered, overlapped, uiVars, npolls,
                   nevents, lastEvent, agentSessions, stateLock, mpc>>

-----------------------------------------------------------------------------
(* The other hook invocations of a session: main() ends in                 *)
(* writeActionBarSession with the routed status, or in                     *)
(* removeActionBarSession for session_end                                  *)

EventUpsert(s, status) ==
    /\ nevents < MaxEvents
    /\ nevents' = nevents + 1
    /\ modifyActionBar([kind |-> "upsert", sid |-> s, state |-> status,
                        tool |-> "", input |-> ""])
    /\ UNCHANGED <<now, advances, callerVars, rspFile, hbFile, hookVars,
                   uiVars, npolls, lastEvent, agentSessions, stateLock, mpc>>

EventRemove(s) ==
    /\ nevents < MaxEvents
    /\ nevents' = nevents + 1
    /\ modifyActionBar([kind |-> "remove", sid |-> s, state |-> "",
                        tool |-> "", input |-> ""])
    /\ UNCHANGED <<now, advances, callerVars, rspFile, hbFile, hookVars,
                   uiVars, npolls, lastEvent, agentSessions, stateLock, mpc>>

-----------------------------------------------------------------------------
(* The action bar helper (UI process) *)

\* abSlot
Slot(id, state, pending, tool, detail) ==
    [SessionID |-> id, State |-> state, HasPending |-> pending,
     ToolName |-> tool, ToolDetail |-> detail]

\* a freshness test that still accepts a heartbeat exactly 3 seconds old
HbFreshInclusive(id) == hbFile[id] # -1 /\ now - hbFile[id] <= HeartbeatFresh

\* os.Stat(hbPath) succeeds and time.Since(info.ModTime()) < 3*time.Second
HbFresh(id) == hbFile[id] # -1 /\ now - hbFile[id] < HeartbeatFresh

\* a slot built without the override of a stale "needs approval"
SlotOfNoOverride(id, rec) ==
    IF rec.State = "needs approval" /\ HbFresh(id) /\ rec.ToolName # ""
    THEN Slot(id, rec.State, TRUE, rec.ToolName, rec.ToolInput)
    ELSE Slot(id, rec.State, FALSE, "", "")

\* the slot abDoRead builds for one session, with the heartbeat override
SlotOf(id, rec) ==
    IF rec.State = "needs approval"
    THEN IF HbFresh(id) /\ rec.ToolName # ""
         THEN Slot(id, rec.State, TRUE, rec.ToolName, rec.ToolInput)
         ELSE IF ~HbFresh(id)
              THEN Slot(id, "working", FALSE, "", "")
              ELSE Slot(id, rec.State, FALSE, "", "")
    ELSE Slot(id, rec.State, FALSE, "", "")

\* a listing that skips no session, however old its record
RECURSIVE SlotsFromAll(_)
SlotsFromAll(id) ==
    IF id > NumSessions THEN << >>
    ELSE (IF id \in DOMAIN Registry
          THEN << SlotOf(id, Registry[id]) >>
          ELSE << >>) \o SlotsFromAll(id + 1)

\* the sessions in id order, those older than 10 minutes skipped
RECURSIVE SlotsFrom(_)
SlotsFrom(id) ==
    IF id > NumSessions THEN << >>
    ELSE (IF id \in DOMAIN Registry
             /\ ~(Unix(now) - Registry[id].UpdatedAt > SessionTTL)
          THEN << SlotOf(id, Registry[id]) >>
          ELSE << >>) \o SlotsFrom(id + 1)

\* a read that yields the empty slice when the file cannot be read
abDoReadEmptyOnError ==
    IF regFile.kind # "doc" THEN Slots(<< >>)
    ELSE LET all == SlotsFrom(1)
         IN  IF Len(all) > abMaxSlots THEN Slots(SubSeq(all, 1, abMaxSlots))
             ELSE Slots(all)

\* abDoRead: nil when the file cannot be read or parsed
abDoRead ==
    IF regFile.kind # "doc" THEN Nil
    ELSE LET all == SlotsFrom(1)
         IN  IF Len(all) > abMaxSlots THEN Slots(SubSeq(all, 1, abMaxSlots))
             ELSE Slots(all)

\* an abTriggerRead that starts a background read on every timer tick
TimerUnguarded(n) ==
    /\ npolls < n
    /\ abBgRunning' = abBgRunning + 1
    /\ npolls' = npolls + 1
    /\ UNCHANGED <<now, advances, regFile, callerVars, rspFile, hbFile,
                   hookVars, abSlots, abSelectedSlot, abSelectedSessID,
                   abPendingSlots, abSeq, wmUser, writers, nresponses, nevents,
                   lastEvent, agentSessions, stateLock, mpc>>

\* WM_TIMER, for the first n ticks: abTriggerRead starts the background read
\* unless one is running (CompareAndSwap of abBgRunning from 0 to 1)
TimerWithin(n) ==
    /\ npolls < n
    /\ abBgRunning = 0
    /\ abBgRunning' = 1
    /\ npolls' = npolls + 1
    /\ UNCHANGED <<now, advances, regFile, callerVars, rspFile, hbFile,
                   hookVars, abSlots, abSelectedSlot, abSelectedSessID,
                   abPendingSlots, abSeq, wmUser, writers, nresponses, nevents, lastEvent, agentSessions, stateLock, mpc>>

Timer == TimerWithin(MaxPolls)

\* the background goroutine: abDoRead, store the result, post WM_USER
BgRead ==
    /\ abBgRunning = 1
    /\ abPendingSlots' = abDoRead
    /\ wmUser' = TRUE
    /\ abBgRunning' = 0
    /\ abSeq' = [abSeq EXCEPT !.pending = npolls]
    /\ UNCHANGED <<now, advances, regFile, callerVars, rspFile, hbFile,
                   hookVars, abSlots, abSelectedSlot, abSelectedSessID,
                   writers, nresponses, npolls, nevents, lastEvent, agentSessions, stateLock, mpc>>

\* abSlotsEqual: the fields it compares; ToolDesc and ToolDetail are not
\* among them
abSlotsEqual(a, b) ==
    /\ Len(a) = Len(b)
    /\ \A i \in 1..Len(a) :
          /\ a[i].SessionID = b[i].SessionID
          /\ a[i].State = b[i].State
          /\ a[i].HasPending = b[i].HasPending
          /\ a[i].ToolName = b[i].ToolName

\* index of the slot of session id in slots, 0 if none
IndexOf(slots, id) ==
    IF \E i \in 1..Len(slots) : slots[i].SessionID = id
    THEN CHOOSE i \in 1..Len(slots) : slots[i].SessionID = id
    ELSE 0

\* WM_USER: abApplyPending
ApplyPending ==
    /\ wmUser
    /\ wmUser' = FALSE
    /\ IF abPendingSlots.nil
       THEN UNCHANGED <<abSlots, abSelectedSlot, abSelectedSessID,
                        abPendingSlots, abSeq>>
       ELSE /\ abPendingSlots' = Nil
            /\ abSeq' = [abSeq EXCEPT !.applied = abSeq.pending]
            /\ IF abSlotsEqual(abSlots, abPendingSlots.slots)
               THEN UNCHANGED <<abSlots, abSelectedSlot, abSelectedSessID>>
               ELSE /\ abSlots' = abPendingSlots.slots
                    /\ abSelectedSlot' =
                         IF abSelectedSessID # 0
                         THEN IndexOf(abPendingSlots.slots, abSelectedSessID)
                         ELSE 0
                    /\ abSelectedSessID' =
                         IF abSelectedSessID # 0
                            /\ IndexOf(abPendingSlots.slots, abSelectedSessID) = 0
                         THEN 0
                         ELSE abSelectedSessID
    /\ UNCHANGED <<now, advances, regFile, callerVars, rspFile, hbFile,
                   hookVars, abBgRunning, writers, nresponses, npolls, nevents, lastEvent, agentSessions, stateLock, mpc>>

\* WM_LBUTTONDOWN on slot i: toggle the selection
Click(i) ==
    /\ i \in 1..Len(abSlots)
    /\ IF abSelectedSlot = i
       THEN abSelectedSlot' = 0 /\ abSelectedSessID' = 0
       ELSE abSelectedSlot' = i /\ abSelectedSessID' = abSlots[i].SessionID
    /\ UNCHANGED <<now, advances, regFile, callerVars, rspFile, hbFile,
                   hookVars, abSlots, abPendingSlots, abSeq, abBgRunning, wmUser,
                   writers, nresponses, npolls, nevents, lastEvent, agentSessions, stateLock, mpc>>

\* WM_KEYDOWN VK_ESCAPE: deselect
Escape ==
    /\ abSelectedSlot > 0
    /\ abSelectedSlot' = 0
    /\ abSelectedSessID' = 0
    /\ UNCHANGED <<now, advances, regFile, callerVars, rspFile, hbFile,
                   hookVars, abSlots, abPendingSlots, abSeq, abBgRunning, wmUser,
                   writers, nresponses, npolls, nevents, lastEvent, agentSessions, stateLock, mpc>>

\* the keys 1, 2, 3 of WM_KEYDOWN
Keys == {[behavior |-> "allow", apply |-> FALSE],
         [behavior |-> "allow", apply |-> TRUE],
         [behavior |-> "deny", apply |-> FALSE]}

\* a key handler without the state test
MayRespondAny(slot) == TRUE

\* the guard of WM_KEYDOWN and of abWriteResponse on the selected slot
MayRespond(slot) == slot.State = "needs approval"

\* WM_KEYDOWN 1/2/3 on a selected slot: abWriteResponse marks the slot as no
\* longer pending, deselects, removes the heartbeat and starts the goroutine
\* that writes the response file
Respond(k) ==
    /\ nresponses < MaxResponses
    /\ abSelectedSlot > 0 /\ abSelectedSlot <= Len(abSlots)
    /\ MayRespond(abSlots[abSelectedSlot])
    /\ LET sid == abSlots[abSelectedSlot].SessionID
       IN  /\ abSlots' = [abSlots EXCEPT ![abSelectedSlot].HasPending = FALSE]
           /\ hbFile' = [hbFile EXCEPT ![sid] = -1]
           /\ writers' = writers \cup
                  {[sid |-> sid, behavior |-> k.behavior, apply |-> k.apply,
                    id |-> nresponses + 1, stage |-> "start"]}
           /\ hanswered' = [p \in Hooks |->
                  IF hsid[p] = sid /\ Waiting(p)
                  THEN hanswered[p] + 1 ELSE hanswered[p]]
    /\ abSelectedSlot' = 0
    /\ abSelectedSessID' = 0
    /\ nresponses' = nresponses + 1
    /\ UNCHANGED <<now, advances, regFile, callerVars, rspFile, hpc, hsid,
                   htool, hdeadline, hwake, hrsp, hout, hupdated, overlapped,
                   abPendingSlots, abSeq, abBgRunning, wmUser, npolls, nevents, lastEvent, agentSessions, stateLock, mpc>>

\* the goroutine's os.WriteFile(rspPath) creates or truncates the file ...
WriterOpen(w) ==
    /\ w \in writers /\ w.stage = "start"
    /\ rspFile' = [rspFile EXCEPT ![w.sid] = PartialRsp]
    /\ writers' = (writers \ {w}) \cup {[w EXCEPT !.stage = "open"]}
    /\ UNCHANGED <<now, advances, regFile, callerVars, hbFile, hookVars,
                   abSlots, abSelectedSlot, abSelectedSessID, abPendingSlots, abSeq,
                   abBgRunning, wmUser, nresponses, npolls, nevents, lastEvent, agentSessions, stateLock, mpc>>

\* ... and then writes the response into it
WriterData(w) ==
    /\ w \in writers /\ w.stage = "open"
    /\ rspFile' = [rspFile EXCEPT ![w.sid] =
           Rsp(w.behavior, w.apply, w.id,
               {p \in Hooks : hsid[p] = w.sid /\ Waiting(p)})]
    /\ writers' = writers \ {w}
    /\ UNCHANGED <<now, advances, regFile, callerVars, hbFile, hookVars,
                   abSlots, abSelectedSlot, abSelectedSessID, abPendingSlots, abSeq,
                   abBgRunning, wmUser, nresponses, npolls, nevents, lastEvent, agentSessions, stateLock, mpc>>

-----------------------------------------------------------------------------
(* The rendezvous specification *)

\* clock jumps: a poll interval, the heartbeat window, the permission deadline
Jumps == {PollInterval, HeartbeatFresh, PermissionDeadline}

\* the clock advances while every hook sleeps (or has not started, or has
\* ended) and the UI has no goroutine running and no message queued
Advance ==
    /\ advances < MaxTicks
    /\ \A p \in Hooks : hpc[p] \in {"idle", "sleep", "resolved", "timedout",
                                    "killed"}
    /\ abBgRunning = 0 /\ ~wmUser /\ writers = {}
    /\ \E d \in Jumps : now' = now + d
    /\ advances' = advances + 1
    /\ UNCHANGED <<regFile, callerVars, rvVars>>

Init == InitReg

Next ==
    \/ \E p \in Hooks, s \in RvSessions, tool \in ToolNames : StartHook(p, s, tool)
    \/ \E p \in Hooks : SetPending(p)
    \/ \E p \in Hooks : CreateHeartbeat(p)
    \/ \E p \in Hooks : ReadMiss(p)
    \/ \E p \in Hooks : Timeout(p)
    \/ \E p \in Hooks : Touch(p)
    \/ \E p \in Hooks : ReadResponse(p)
    \/ \E p \in Hooks : RemoveResponse(p)
    \/ \E p \in Hooks : ClearAndEmit(p)
    \/ \E p \in Hooks : Kill(p)
    \/ \E s \in RvSessions, status \in Statuses : EventUpsert(s, status)
    \/ \E s \in RvSessions : EventRemove(s)
    \/ Timer
    \/ BgRead
    \/ ApplyPending
    \/ \E i \in 1..NumRvSessions : Click(i)
    \/ Escape
    \/ \E k \in Keys : Respond(k)
    \/ \E w \in writers : WriterOpen(w)
    \/ \E w \in writers : WriterData(w)
    \/ Advance

Spec == Init /\ [][Next]_vars

-----------------------------------------------------------------------------
(* Claims about the registry, checked under SpecReg *)

Acquired(p) == racquired[p] \in {"alone", "contended"}

InCritical(p) == rpc[p] \in {"locked", "loaded", "tmpopen", "tmpfull", "renamed"}

AllUpsertsReturned ==
    /\ \A p \in Callers : rpc[p] = "done" /\ rop[p].kind = "upsert"
                            /\ Acquired(p)
    /\ \A p, q \in Callers : p # q => rop[p].sid # rop[q].sid
    /\ \A p, q \in Callers : rcalledAt[p] = rcalledAt[q]

\* C2: once N concurrent upserts on N distinct session ids, all of which
\* acquired the lock, have returned, the registry holds all N records.
C2_NoLostUpdates ==
    AllUpsertsReturned =>
        /\ regFile.kind = "doc"
        /\ \A p \in Callers :
              /\ rop[p].sid \in DOMAIN regFile.sessions
              /\ regFile.sessions[rop[p].sid].State = rop[p].state

C2_Witness ==
    /\ AllUpsertsReturned
    /\ \E p \in Callers : racquired[p] = "contended"
    /\ Cardinality(DOMAIN regFile.sessions) = NumCallers

\* C3: at most one process is between acquiring and releasing the registry
\* lock, and the document a lock holder loaded is the document persisted
\* by the preceding lock holder, whatever the operations are.
C3_MutexOrder ==
    /\ Cardinality({p \in Callers : InCritical(p)}) <= 1
    /\ \A p \in Callers : InCritical(p) => lockHolder = p
    /\ \A p \in Callers :
          rpc[p] \in {"loaded", "tmpopen", "tmpfull"} => rloaded[p] = persisted

C3_Witness ==
    \E p, q \in Callers :
        /\ p # q
        /\ rpc[p] = "loaded"
        /\ racquired[p] = "contended"
        /\ rpc[q] = "done" /\ Acquired(q)
        /\ rop[q].kind = "upsert" /\ rop[p].kind = "set"
        /\ rop[q].sid = rop[p].sid
        /\ rop[q].sid \in DOMAIN rloaded[p]
        /\ rabs[p][rop[p].sid].State = "needs approval"

\* C4: a UI read of the registry file, taken at any point of any registry
\* write, returns the complete document the latest finished writer
\* persisted (the previous one while a write is under way, the new one
\* after its rename), or no file at all; never a partial one.
C4_ReadAtomicity ==
    [][UIReadFile => /\ uiRaw'.kind # "partial"
                     /\ uiRaw' \in {NoFile, Doc(persisted)}]_vars

C4_Witness ==
    /\ uiMid
    /\ uiRaw.kind = "doc"
    /\ DOMAIN uiRaw.sessions # {}
    /\ \E p \in Callers : rpc[p] = "tmpfull" /\ rabs[p] # uiRaw.sessions

-----------------------------------------------------------------------------
(* Claims about the permission rendezvous, checked under Spec *)

\* no other hook process ran for the session of hook p while p ran
Sole(p) == p \notin overlapped

\* the session record of hook p is absent or no longer "needs approval"
NotNeedsApproval(p) ==
    hsid[p] \in DOMAIN Registry => Registry[hsid[p]].State # "needs approval"

\* the pending fields of the session record of hook p are cleared
PendingCleared(p) ==
    hsid[p] \in DOMAIN Registry =>
        /\ Registry[hsid[p]].State = "working"
        /\ Registry[hsid[p]].ToolName = ""

\* C1: when no response was ever written and the deadline elapses, the hook
\* terminates without a decision, and once it has terminated the session
\* record is no longer "needs approval" and the heartbeat file is gone.
C1_TimeoutCleanup ==
    \A p \in Hooks :
        (hpc[p] = "timedout" /\ nresponses = 0 /\ Sole(p)) =>
            /\ hout[p] = ""
            /\ NotNeedsApproval(p)
            /\ hbFile[hsid[p]] = -1

\* C5: the hook that read a parseable response emits a decision with the
\* behavior of that file and terminates, and when it has terminated the
\* response file of the session does not exist.
C5_RendezvousSuccess ==
    \A p \in Hooks :
        (hpc[p] = "resolved" /\ Sole(p)) =>
            /\ hout[p] = hrsp[p].behavior
            /\ rspFile[hsid[p]] = NoRsp

\* C6: when a waiting hook has reached RESOLVED and terminated, the pending
\* fields of its session record are cleared with status working and the
\* heartbeat file of the session has been removed.
C6_CleanupOnResolution ==
    [][\A p \in Hooks :
          (hpc[p] = "clear" /\ hpc'[p] = "resolved" /\ Sole(p)) =>
              /\ PendingCleared(p)'
              /\ hbFile'[hsid[p]] = -1]_vars

\* C7: the UI writes at most one response per permission request: while
\* one hook waits on its request the UI issues at most one response for it.
C7_OneResponsePerRequest == \A p \in Hooks : hanswered[p] <= 1

\* C8: a written response is turned into a decision by at most one hook,
\* every hook emits at most one decision, and a hook that timed out emitted
\* none.
C8_ConsumedOnce ==
    /\ \A p, q \in Hooks :
          (p # q /\ hpc[p] \in {"rmrsp", "clear", "resolved"}
                 /\ hpc[q] \in {"rmrsp", "clear", "resolved"}) =>
              hrsp[p].id # hrsp[q].id
    /\ \A p \in Hooks : hpc[p] = "timedout" => hout[p] = ""
    /\ \A p \in Hooks : hout[p] # "" => hpc[p] = "resolved"

\* C9: at no time are two hook processes both waiting for the same session.
C9_OneOutstandingRequest ==
    \A p, q \in Hooks :
        (p # q /\ Waiting(p) /\ Waiting(q)) => hsid[p] # hsid[q]

\* C10: the response a hook turns into its decision was written by the UI
\* after that hook's own request was set pending, never for an earlier
\* request of the session.
C10_NoStaleResponse ==
    \A p \in Hooks :
        (hpc[p] \in {"rmrsp", "clear", "resolved"} /\ Sole(p)) =>
            p \in hrsp[p].after

-----------------------------------------------------------------------------
(* Ownership of the heartbeat and response files, checked under Spec *)

\* the step is taken by a hook process of session s
HookStepOn(s) == \E p \in Hooks : hpc'[p] # hpc[p] /\ hsid'[p] = s

\* the step is abWriteResponse in the UI thread
RespondStep == nresponses' # nresponses

\* the step is taken by a response-writer goroutine of the UI
WriterStep == writers' # writers /\ ~RespondStep

\* the heartbeat of s is created or touched; it is removed
HbWritten(s) == hbFile'[s] # hbFile[s] /\ hbFile'[s] # -1
HbRemoved(s) == hbFile[s] # -1 /\ hbFile'[s] = -1

\* the response file of s is created or written; it is deleted
RspWritten(s) == rspFile'[s] # rspFile[s] /\ rspFile'[s].kind # "missing"
RspDeleted(s) == rspFile[s].kind # "missing" /\ rspFile'[s].kind = "missing"

\* C11: only the hook process creates, touches or removes a session's
\* heartbeat file, only the hook process deletes a response file, and only
\* the UI process creates a response file.
C11_FileOwnership ==
    [][\A s \in Sessions :
          /\ (HbWritten(s) \/ HbRemoved(s)) => HookStepOn(s)
          /\ RspDeleted(s) => HookStepOn(s)
          /\ RspWritten(s) => WriterStep]_vars

\* C11 as the code has it: only the hook process creates or touches the
\* heartbeat file; the heartbeat is removed by the hook process or by the UI
\* as it answers (abWriteResponse); only the hook process deletes a response
\* file and only the UI process creates one.
C11_FileOwnershipUI ==
    [][\A s \in Sessions :
          /\ HbWritten(s) => HookStepOn(s)
          /\ HbRemoved(s) => (HookStepOn(s) \/ RespondStep)
          /\ RspDeleted(s) => HookStepOn(s)
          /\ RspWritten(s) => WriterStep]_vars

\* the UI has removed a heartbeat and written a response, the hook has
\* deleted the response and ended
C11_Witness ==
    \E p \in Hooks :
        /\ hpc[p] = "resolved"
        /\ hanswered[p] = 1
        /\ hbFile[hsid[p]] = -1
        /\ rspFile[hsid[p]] = NoRsp

-----------------------------------------------------------------------------
(* The heartbeat while a hook waits, checked under Spec *)

\* hook p has created its heartbeat and has not read a response
Polling(p) == hpc[p] \in {"sleep", "read"}

\* the heartbeat of hook p exists, was refreshed at the latest poll tick of
\* p, and is younger than the staleness window while the next tick is not
\* overdue
HeartbeatLive(p) ==
    /\ hbFile[hsid[p]] # -1
    /\ hpc[p] = "read" => hbFile[hsid[p]] = now
    /\ hpc[p] = "sleep" => hbFile[hsid[p]] + PollInterval >= hwake[p]
    /\ (hpc[p] = "sleep" /\ now <= hwake[p]) =>
           now - hbFile[hsid[p]] < HeartbeatFresh

-----------------------------------------------------------------------------
(* What a UI read makes of a session, checked under Spec *)

\* the step is the background read of the UI (abDoRead)
ReadStep == abBgRunning = 1 /\ abBgRunning' = 0

\* the registry record of s says "needs approval"
NeedsApproval(s) ==
    s \in DOMAIN Registry /\ Registry[s].State = "needs approval"

\* the heartbeat of s is missing or 3 seconds old or older
HbStale(s) == hbFile[s] = -1 \/ now - hbFile[s] >= HeartbeatFresh

\* the record of s is within the 10 minutes abDoRead lists
Listed(s) ==
    s \in DOMAIN Registry /\ Unix(now) - Registry[s].UpdatedAt <= SessionTTL

\* the slots the read returned for session s
ReadSlots(s) ==
    {abPendingSlots'.slots[i] : i \in
        {j \in 1..Len(abPendingSlots'.slots) :
            abPendingSlots'.slots[j].SessionID = s}}

\* the read succeeded and returned a slot for s
ReadLists(s) == ~abPendingSlots'.nil /\ ReadSlots(s) # {}

ShownWorking(slot) == slot.State = "working" /\ ~slot.HasPending

\* C13: a UI read classifies every session whose record is "needs approval"
\* and whose heartbeat is missing or 3 seconds old or older as working and
\* not pending.
C13_StalenessOverride ==
    [][ReadStep =>
          \A s \in Sessions :
              (NeedsApproval(s) /\ HbStale(s) /\ Listed(s)) =>
                  /\ ReadLists(s)
                  /\ \A slot \in ReadSlots(s) : ShownWorking(slot)]_vars

\* a read has found a "needs approval" record with a heartbeat that exists
\* and is exactly 3 seconds old, and has classified it as working
C13_Witness ==
    \E s \in Sessions :
        /\ NeedsApproval(s) /\ Registry[s].ToolName # ""
        /\ hbFile[s] # -1 /\ now - hbFile[s] = HeartbeatFresh
        /\ wmUser /\ ~abPendingSlots.nil
        /\ Len(abPendingSlots.slots) = 1
        /\ abPendingSlots.slots[1].SessionID = s
        /\ ShownWorking(abPendingSlots.slots[1])

\* the slot is rendered as pending and a key 1, 2 or 3 on it is answered
ShownPending(slot) ==
    slot.State = "needs approval" /\ slot.HasPending /\ MayRespond(slot)

\* C14: a UI read renders every session whose record is "needs approval" and
\* whose heartbeat is fresh (younger than 3 seconds) as pending, and the
\* user can produce a response for it.
C14_FreshPending ==
    [][ReadStep =>
          \A s \in Sessions :
              (NeedsApproval(s) /\ ~HbStale(s) /\ Listed(s)) =>
                  /\ ReadLists(s)
                  /\ \A slot \in ReadSlots(s) : ShownPending(slot)]_vars

\* the step kills a waiting hook
KillStep == \E p \in Hooks : Waiting(p) /\ hpc'[p] = "killed"

-----------------------------------------------------------------------------
(* The session TTL, checked under SpecReg *)

\* caller p persists its document in this step (the rename)
Persists(p) == rpc[p] = "tmpfull" /\ rpc'[p] = "renamed"

\* the age in seconds of record id of document abs
Age(abs, id) == Unix(now) - abs[id].UpdatedAt

\* C16: an upsert for any session removes every other record whose
\* updated_at is more than 600 seconds before now and keeps, unchanged,
\* every other record whose age is 600 seconds or less.
C16_PruneOnUpsert ==
    [][\A p \in Callers :
          (Persists(p) /\ rop[p].kind = "upsert") =>
              \A id \in Sessions \ {rop[p].sid} :
                  /\ id \in DOMAIN regFile'.sessions <=>
                        (id \in DOMAIN rloaded[p] /\ Age(rloaded[p], id) <= SessionTTL)
                  /\ id \in DOMAIN regFile'.sessions =>
                        regFile'.sessions[id] = rloaded[p][id]]_vars

\* an upsert has just persisted a document from which it removed a record
\* that was 601 seconds old
C16_Witness ==
    \E p \in Callers :
        /\ rpc[p] = "renamed" /\ rop[p].kind = "upsert"
        /\ \E id \in DOMAIN rloaded[p] \ {rop[p].sid} :
              /\ Age(rloaded[p], id) = SessionTTL + 1
              /\ id \notin DOMAIN regFile.sessions

\* C17: after any registry write has completed (upsert, remove,
\* set_permission_pending or clear_permission_pending), the registry holds
\* no record whose updated_at is more than 600 seconds old.
C17_PruneOnAnyWrite ==
    [][\A p \in Callers :
          Persists(p) =>
              \A id \in DOMAIN regFile'.sessions :
                  Unix(now) - regFile'.sessions[id].UpdatedAt <= SessionTTL]_vars

-----------------------------------------------------------------------------
(* The lifetime of a session record, checked under SpecReg *)

\* the hook of the end event of session s has run its remove
Ended(s) ==
    \E q \in Callers :
        /\ rpc[q] = "done" /\ Acquired(q)
        /\ rop[q].kind = "remove" /\ rop[q].sid = s

\* a hook of a start event of session s has been started (session_start is
\* the only event routed to status "ready")
Restarted(s) ==
    \E p \in Callers :
        rop[p].kind = "upsert" /\ rop[p].sid = s /\ rop[p].state = "ready"

\* C18: once the hook of a session's end event has run remove, no record of
\* that session exists again, whatever other hooks of the session do, unless
\* the session is started anew.
C18_RecordLifetime ==
    \A s \in Sessions :
        (Ended(s) /\ ~Restarted(s)) =>
            (regFile.kind = "doc" => s \notin DOMAIN regFile.sessions)

-----------------------------------------------------------------------------
(* Sequences of registry operations.  The lock serializes the calls and the *)
(* rename makes each visible at once, so a call is one step here; caller 1  *)
(* stands for whichever hook process runs next, and keeps the operation and *)
(* the document it loaded.                                                  *)

RegistryCall(p, op) ==
    /\ modifyActionBar(op)
    /\ rop' = [rop EXCEPT ![p] = op]
    /\ rloaded' = [rloaded EXCEPT ![p] = LoadDoc(regFile)]
    /\ UNCHANGED <<now, advances, tmpFile, lockHolder, rpc, rabs, racquired,
                   rcalledAt, persisted, uiRaw, uiMid, rvVars>>

NextOps ==
    \/ \E op \in Ops : RegistryCall(1, op)
    \/ AdvanceReg

SpecOps == InitReg /\ [][NextOps]_vars

\* the permission fields of a record are empty
NoToolDetails(rec) == rec.ToolName = "" /\ rec.ToolInput = ""

\* C19: after any sequence of registry operations every record with
\* non-empty permission fields has status "needs approval", and an operation
\* that moves a record away from "needs approval" leaves the fields empty.
C19_PermissionFields ==
    [][/\ \A id \in DOMAIN Registry' :
             ~NoToolDetails(Registry'[id]) =>
                 Registry'[id].State = "needs approval"
       /\ \A id \in DOMAIN Registry \cap DOMAIN Registry' :
             (/\ Registry[id].State = "needs approval"
              /\ Registry'[id].State # "needs approval") =>
                 NoToolDetails(Registry'[id])]_vars

\* an upsert has just moved a record with tool details away from "needs
\* approval"
C19_Witness ==
    /\ rop[1].kind = "upsert" /\ rop[1].state = "done"
    /\ rop[1].sid \in DOMAIN rloaded[1]
    /\ rloaded[1][rop[1].sid].State = "needs approval"
    /\ ~NoToolDetails(rloaded[1][rop[1].sid])
    /\ Registry[rop[1].sid].State = "done"
    /\ NoToolDetails(Registry[rop[1].sid])

-----------------------------------------------------------------------------
(* Who writes "needs approval", checked under Spec *)

\* the step is updateActionBarPermission of a hook of session s
SetPendingStep(s) ==
    \E p \in Hooks : hpc[p] = "set" /\ hpc'[p] = "hb" /\ hsid[p] = s

\* the step is the registry write of another hook invocation (main())
EventStep == nevents' # nevents

\* C20: a record's status becomes "needs approval" only through
\* updateActionBarPermission; the registry write of any other hook
\* invocation never writes "needs approval" and never overwrites the tool
\* details of a pending request.
C20_NeedsApprovalExclusive ==
    [][/\ \A s \in Sessions :
             (~NeedsApproval(s) /\ NeedsApproval(s)') => SetPendingStep(s)
       /\ EventStep =>
             /\ \A s \in DOMAIN Registry' :
                   Registry'[s].State = "needs approval" =>
                       (s \in DOMAIN Registry /\ Registry'[s] = Registry[s])
             /\ \A s \in DOMAIN Registry \cap DOMAIN Registry' :
                   Registry'[s].ToolName = Registry[s].ToolName]_vars

-----------------------------------------------------------------------------
(* The single registry operations, checked under SpecOps *)

\* the step is a registry call with an operation of this kind
CallStep(kind) == advances' = advances /\ rop'[1].kind = kind

\* every session but s has in the new registry what it had in the old one
OthersUnchanged(s) ==
    /\ DOMAIN Registry' \ {s} = DOMAIN Registry \ {s}
    /\ \A id \in DOMAIN Registry \ {s} : Registry'[id] = Registry[id]

\* C21: set_permission_pending for a session that is not in the registry
\* creates no record and leaves the mapping of every session unchanged.
C21_SetPendingAbsent ==
    [][(CallStep("set") /\ rop'[1].sid \notin DOMAIN Registry) =>
          Registry' = Registry]_vars

\* a set_permission_pending for an absent session has run on a registry
\* that holds another session
C21_Witness ==
    /\ rop[1].kind = "set"
    /\ rop[1].sid \notin DOMAIN rloaded[1]
    /\ DOMAIN rloaded[1] # {}
    /\ Registry = rloaded[1]

\* C22: clear_permission_pending leaves the record of a present session with
\* status working and empty permission fields, and does nothing for an absent
\* session; the other sessions are left as they were.
C22_ClearPending ==
    [][CallStep("clear") =>
          /\ OthersUnchanged(rop'[1].sid)
          /\ IF rop'[1].sid \in DOMAIN Registry
             THEN /\ rop'[1].sid \in DOMAIN Registry'
                  /\ Registry'[rop'[1].sid].State = "working"
                  /\ NoToolDetails(Registry'[rop'[1].sid])
             ELSE Registry' = Registry]_vars

\* a clear has run on a record that was "needs approval" with tool details
C22_Witness ==
    /\ rop[1].kind = "clear"
    /\ rop[1].sid \in DOMAIN rloaded[1]
    /\ rloaded[1][rop[1].sid].State = "needs approval"
    /\ ~NoToolDetails(rloaded[1][rop[1].sid])
    /\ Registry[rop[1].sid].State = "working"

\* C23: remove(s) deletes the record of s if present and nothing else; a
\* remove of a session that is not (or no longer) present leaves the
\* registry mapping unchanged.
C23_IdempotentRemove ==
    [][CallStep("remove") =>
          /\ rop'[1].sid \notin DOMAIN Registry'
          /\ OthersUnchanged(rop'[1].sid)
          /\ rop'[1].sid \notin DOMAIN Registry => Registry' = Registry]_vars

\* a remove has run for a session that was not present, on a registry that
\* holds a record older than the TTL
C23_Witness ==
    /\ rop[1].kind = "remove"
    /\ rop[1].sid \notin DOMAIN rloaded[1]
    /\ \E id \in DOMAIN rloaded[1] : Age(rloaded[1], id) > SessionTTL
    /\ Registry = rloaded[1]

-----------------------------------------------------------------------------
(* Lock failure, checked under SpecReg *)

\* caller p returns from modifyActionBar without having held the lock
LockFailStep(p) == rpc[p] = "open" /\ rpc'[p] = "done"

\* C24: when the lock file cannot be opened or locked, the mutation is a
\* silent no-op: the registry file, the temporary file and the lock are left
\* as they were, the caller returns, and the call is not tried again.
C24_LockFailureNoOp ==
    [][\A p \in Callers :
          /\ LockFailStep(p) =>
                /\ regFile' = regFile
                /\ tmpFile' = tmpFile
                /\ lockHolder' = lockHolder
                /\ persisted' = persisted
          /\ rpc[p] = "done" => rpc'[p] = "done"]_vars

\* an upsert of a new session has returned on a lock failure and the registry
\* document, which holds another session, does not have the new record
C24_Witness ==
    \E p \in Callers :
        /\ rpc[p] = "done"
        /\ ~Acquired(p)
        /\ rop[p].kind = "upsert"
        /\ regFile.kind = "doc"
        /\ DOMAIN regFile.sessions # {}
        /\ rop[p].sid \notin DOMAIN regFile.sessions

-----------------------------------------------------------------------------
(* A registry file that is missing or cannot be parsed *)

\* between two registry calls something outside the program deletes the
\* registry file or leaves it with content that is no JSON document; the
\* callers meet it as a failing os.ReadFile or json.Unmarshal
Damage ==
    /\ lockHolder = 0
    /\ \E f \in {NoFile, Partial} : regFile # f /\ regFile' = f
    /\ UNCHANGED <<now, advances, callerVars, rvVars>>

NextDamaged == NextReg \/ Damage

SpecDamaged == InitReg /\ [][NextDamaged]_vars

\* what a call leaves of an empty mapping
OnEmpty(op) ==
    IF op.kind = "upsert"
    THEN [id \in {op.sid} |-> Session(op.sid, op.state, "", Unix(now))]
    ELSE EmptyMap

\* C25: a mutation that finds the registry file missing or unparseable does
\* not fail: it is applied to the empty mapping and the file it persists is
\* a document, after an upsert the document with exactly the upserted record.
C25_DamagedFileAsEmpty ==
    [][\A p \in Callers :
          /\ (rpc[p] = "locked" /\ rpc'[p] # "locked" /\ regFile.kind # "doc") =>
                rpc'[p] = "loaded" /\ rabs'[p] = OnEmpty(rop[p])
          /\ (Persists(p) /\ regFile.kind # "doc") =>
                regFile' = Doc(OnEmpty(rop[p]))]_vars

\* an upsert holds the lock on a registry file that was damaged after another
\* caller had written a session to it, and has written its temporary file
C25_Witness ==
    \E p \in Callers :
        /\ rpc[p] = "tmpfull"
        /\ regFile = Partial
        /\ persisted # EmptyMap
        /\ rop[p].kind = "upsert"
        /\ tmpFile = Doc(OnEmpty(rop[p]))

-----------------------------------------------------------------------------
(* The decision a resolved hook prints *)

\* C27: the decision carries the request's permission suggestions as updated
\* permissions exactly when the response says allow with apply_suggestions
\* and the request came with suggestions; a deny decision never carries them.
C27_UpdatedPermissions ==
    \A p \in Hooks :
        hpc[p] = "resolved" =>
            /\ hupdated[p] <=> (/\ hout[p] = "allow"
                                /\ hrsp[p].apply
                                /\ HasSuggestions(p))
            /\ hout[p] = "deny" => ~hupdated[p]

\* one hook has printed an allow that carries the suggestions, after the
\* user pressed the apply key
C27_Witness ==
    \E p \in Hooks :
        /\ hpc[p] = "resolved"
        /\ hout[p] = "allow"
        /\ hrsp[p].apply
        /\ hupdated[p]

-----------------------------------------------------------------------------
(* Termination of the rendezvous wait *)

\* C28: the wait is bounded by the deadline plus one poll interval: a sleep
\* begins only before the deadline, so it ends less than one poll interval
\* after it; a hook that is due always has a step to take, whatever the
\* other processes have done; and a poll at or after the deadline that finds
\* no response ends the wait instead of sleeping again.
C28_BoundedWait ==
    \A p \in Hooks :
        /\ hpc[p] = "sleep" =>
              /\ hwake[p] < hdeadline[p] + PollInterval
              /\ hwake[p] <= now => ENABLED Touch(p)
        /\ hpc[p] = "read" =>
              /\ ENABLED (ReadResponse(p) \/ ReadMiss(p) \/ Timeout(p))
              /\ hdeadline[p] <= now => ~ENABLED ReadMiss(p)
        /\ hpc[p] = "rmrsp" => ENABLED RemoveResponse(p)
        /\ hpc[p] = "clear" => ENABLED ClearAndEmit(p)

\* a hook has polled at its deadline, found no response and left without
\* printing a decision
C28_Witness ==
    \E p \in Hooks :
        /\ hpc[p] = "timedout"
        /\ now >= PermissionDeadline
        /\ hout[p] = ""

-----------------------------------------------------------------------------
(* The UI's reads of the registry: several timer ticks, a registry that     *)
(* changes between them and a registry file that can be missing or damaged  *)

MaxUIPolls == 3

\* the registry calls made while the UI polls
UIOps ==
    {[kind |-> "upsert", sid |-> 1, state |-> "working", tool |-> "", input |-> ""],
     [kind |-> "upsert", sid |-> 2, state |-> "done", tool |-> "", input |-> ""],
     [kind |-> "remove", sid |-> 1, state |-> "", tool |-> "", input |-> ""]}

\* abTriggerRead and abApplyPending share abPendingSlots without
\* synchronisation.  The outcome in which the goroutine's store
\* "abPendingSlots = slots" lands between abApplyPending's
\* "newSlots := abPendingSlots" and its "abPendingSlots = nil": the older
\* result is applied, the newer one is wiped, and the goroutine's WM_USER
\* finds nothing to apply.
BgReadRacing ==
    /\ abBgRunning = 1
    /\ wmUser
    /\ ~abPendingSlots.nil
    /\ abPendingSlots' = Nil
    /\ abBgRunning' = 0
    /\ abSeq' = [pending |-> npolls, applied |-> abSeq.pending]
    /\ IF abSlotsEqual(abSlots, abPendingSlots.slots)
       THEN UNCHANGED <<abSlots, abSelectedSlot, abSelectedSessID>>
       ELSE /\ abSlots' = abPendingSlots.slots
            /\ abSelectedSlot' =
                 IF abSelectedSessID # 0
                 THEN IndexOf(abPendingSlots.slots, abSelectedSessID)
                 ELSE 0
            /\ abSelectedSessID' =
                 IF abSelectedSessID # 0
                    /\ IndexOf(abPendingSlots.slots, abSelectedSessID) = 0
                 THEN 0
                 ELSE abSelectedSessID
    /\ UNCHANGED <<now, advances, regFile, callerVars, rspFile, hbFile,
                   hookVars, wmUser, writers, nresponses, npolls, nevents,
                   lastEvent, agentSessions, stateLock, mpc>>

NextUI ==
    \/ \E op \in UIOps : RegistryCall(1, op)
    \/ Damage
    \/ TimerWithin(MaxUIPolls)
    \/ BgRead
    \/ BgReadRacing
    \/ ApplyPending

SpecUI == InitReg /\ [][NextUI]_vars

\* the background goroutine reads a registry file that is missing or damaged
FailedRead == ReadStep /\ regFile.kind # "doc"

\* C26: a UI read of a registry file that cannot be read or parsed does not
\* fail; it yields no result (nil), which is not the empty mapping: the UI
\* applies nothing and keeps the slots it showed before.
C26_FailedReadKeepsSlots ==
    [][/\ FailedRead => abPendingSlots' = Nil
       /\ abPendingSlots = Nil => abSlots' = abSlots]_vars

\* C26 as stated: the read of an unreadable registry file yields what the
\* read of a registry without sessions yields, the empty mapping
C26_FailedReadYieldsEmpty ==
    [][FailedRead => abPendingSlots' = Slots(<< >>)]_vars

\* the registry file is damaged, the read issued last has failed and its
\* WM_USER has been handled, and the UI still shows the sessions of the read
\* before
C26_Witness ==
    /\ regFile.kind # "doc"
    /\ abSlots # << >>
    /\ abBgRunning = 0 /\ ~wmUser
    /\ abPendingSlots = Nil
    /\ abSeq.applied > 0 /\ abSeq.pending = npolls /\ abSeq.applied < npolls

\* the result of a background read is applied
Applies == abSeq'.applied # abSeq.applied

\* C29: at most one background read is in flight, and every result that is
\* applied comes from a later read than the result applied before it.
C29_ReadSequencing ==
    [][/\ abBgRunning' \in {0, 1}
       /\ Applies => abSeq'.applied > abSeq.applied
       /\ abSeq'.applied <= abSeq'.pending /\ abSeq'.pending <= npolls']_vars

\* the result of the second read has been applied and shows a session, and
\* a third read is in flight
C29_Witness ==
    /\ abSeq.applied = 2
    /\ abSlots # << >>
    /\ abBgRunning = 1
    /\ npolls = MaxUIPolls

-----------------------------------------------------------------------------
(* main() for the hook events other than PermissionRequest *)

\* hook_event_name and notification_type of the payloads; "PreCompact" and
\* "auth_success" stand for the names the adapter does not know
HookEventNames ==
    {"SessionStart", "UserPromptSubmit", "Stop", "SessionEnd", "Notification",
     "PreCompact"}
NotificationTypes == {"permission_prompt", "idle_prompt", "auth_success"}

\* permission_mode of the payloads
PermissionModes == {"default", "delegate"}

\* the payloads: sid 0 is the empty session id; pass says that the hook gets
\* past the exits between parsing and the agent check (config enabled, state
\* file locked)
Payloads ==
    [name : HookEventNames \ {"Notification"}, notif : {""},
     sid : 0..NumSessions, pass : BOOLEAN, mode : PermissionModes]
    \cup [name : {"Notification"}, notif : NotificationTypes,
          sid : 0..NumSessions, pass : BOOLEAN, mode : PermissionModes]

\* event.AgentMode || (event.SessionID != "" && checkAgent(ls.State, ...)):
\* whether the hook exits here, and the AgentSessions it saves.  checkAgent
\* records the session when permissionMode is "delegate", but then
\* event.AgentMode already holds and || does not evaluate the call.
AgentCheck(e) ==
    IF e.mode = "delegate"
    THEN [suppress |-> TRUE, sessions |-> agentSessions]
    ELSE IF e.sid # 0
    THEN [suppress |-> (e.mode = "delegate" /\ e.sid # 0)
                          \/ e.sid \in agentSessions,
          sessions |-> IF e.mode = "delegate" /\ e.sid # 0
                       THEN agentSessions \cup {e.sid} ELSE agentSessions]
    ELSE [suppress |-> FALSE, sessions |-> agentSessions]

\* ClaudeAdapter.Parse: the Event.Type of a payload
Parse(name, notif) ==
    CASE name = "SessionStart" -> "session_start"
      [] name = "UserPromptSubmit" -> "prompt_submit"
      [] name = "Stop" -> "task_complete"
      [] name = "SessionEnd" -> "session_end"
      [] name = "Notification" ->
            (CASE notif = "permission_prompt" -> "permission_needed"
               [] notif = "idle_prompt" -> "idle"
               [] OTHER -> "")
      [] OTHER -> ""

\* a routing that gives the idle event a status of its own
routeEventQuestion(type) ==
    CASE type = "session_start" -> "ready"
      [] type = "prompt_submit" -> "working"
      [] type = "task_complete" -> "done"
      [] type = "permission_needed" -> "needs approval"
      [] type = "idle" -> "has question"
      [] OTHER -> ""

\* routeEvent: Route.Status
routeEvent(type) ==
    CASE type = "session_start" -> "ready"
      [] type = "prompt_submit" -> "working"
      [] type = "task_complete" -> "done"
      [] type = "permission_needed" -> "needs approval"
      [] type = "idle" -> "done"
      [] OTHER -> ""

\* one run of main() on payload e
HookEvent(e) ==
    LET type == Parse(e.name, e.notif)
        status == routeEvent(type)
    IN  /\ lastEvent' = e
        /\ IF type = "" THEN regFile' = regFile
           ELSE IF type = "session_end"
           THEN modifyActionBar([kind |-> "remove", sid |-> e.sid,
                                 state |-> "", tool |-> "", input |-> ""])
           ELSE IF e.pass /\ ~AgentCheck(e).suppress /\ e.sid # 0 /\ status # ""
           THEN modifyActionBar([kind |-> "upsert", sid |-> e.sid,
                                 state |-> status, tool |-> "", input |-> ""])
           ELSE regFile' = regFile
        /\ agentSessions' =
              IF type \notin {"", "session_end"} /\ e.pass
              THEN AgentCheck(e).sessions ELSE agentSessions
        /\ UNCHANGED <<now, advances, callerVars, rspFile, hbFile, hookVars,
                       uiVars, npolls, nevents, stateLock, mpc>>

NextEvents ==
    \/ \E e \in Payloads : HookEvent(e)
    \/ AdvanceReg

SpecEvents == InitReg /\ [][NextEvents]_vars

\* the status the routing table gives for an event type
TableStatus(type) ==
    IF type = "session_start" THEN "ready"
    ELSE IF type = "prompt_submit" THEN "working"
    ELSE IF type = "task_complete" THEN "done"
    ELSE IF type = "permission_needed" THEN "needs approval"
    ELSE IF type = "idle" THEN "done"
    ELSE "none"

-----------------------------------------------------------------------------
(* The status of an idle notification *)

\* the step is a run of main() on an idle notification that gets as far as
\* the registry write, for a session with an id
IdleEventStep ==
    /\ advances' = advances
    /\ Parse(lastEvent'.name, lastEvent'.notif) = "idle"
    /\ lastEvent'.sid # 0
    /\ lastEvent'.pass

\* C31: an idle notification (Notification with idle_prompt) sets the status
\* of the session's registry record to "has question".
C31_IdleHasQuestion ==
    [][IdleEventStep =>
          /\ lastEvent'.sid \in DOMAIN Registry'
          /\ Registry'[lastEvent'.sid].State = "has question"]_vars

-----------------------------------------------------------------------------
(* Agent suppression *)

\* the payload is a session start, prompt, stop or notification event that
\* the adapter knows
Routed(e) == Parse(e.name, e.notif) \notin {"", "session_end"}

\* C32: agent suppression is sticky: after an event of a session has been
\* processed with permission_mode delegate, the next event of that session
\* (session start, prompt, stop or notification) writes nothing to the
\* registry, whatever its permission_mode.
C32_StickySuppression ==
    [][(/\ advances' = advances
        /\ Routed(lastEvent) /\ lastEvent.pass /\ lastEvent.sid # 0
        /\ lastEvent.mode = "delegate"
        /\ Routed(lastEvent')
        /\ lastEvent'.sid = lastEvent.sid) =>
          regFile' = regFile]_vars

-----------------------------------------------------------------------------
(* clear_permission_pending on a record that is not pending *)

\* C33: clear_permission_pending on a record whose status is not "needs
\* approval" leaves the status of the record unchanged.
C33_ClearOnlyUndoesPending ==
    [][(/\ CallStep("clear")
        /\ rop'[1].sid \in DOMAIN Registry
        /\ Registry[rop'[1].sid].State # "needs approval") =>
          /\ rop'[1].sid \in DOMAIN Registry'
          /\ Registry'[rop'[1].sid].State = Registry[rop'[1].sid].State]_vars

-----------------------------------------------------------------------------
(* The UI polling several times while permission hooks come and go *)

NextRepoll ==
    \/ \E p \in Hooks, s \in RvSessions, tool \in ToolNames : StartHook(p, s, tool)
    \/ \E p \in Hooks : SetPending(p)
    \/ \E p \in Hooks : CreateHeartbeat(p)
    \/ \E p \in Hooks : Kill(p)
    \/ \E s \in RvSessions, status \in Statuses : EventUpsert(s, status)
    \/ TimerWithin(MaxUIPolls)
    \/ BgRead
    \/ ApplyPending

SpecRepoll == InitReg /\ [][NextRepoll]_vars

\* C34: after the UI has applied the result of a read, the slots it displays
\* are that result, the tool detail of a pending session included.
C34_DisplayEqualsRead ==
    [][(Applies /\ overlapped = {}) => abSlots' = abPendingSlots.slots]_vars

-----------------------------------------------------------------------------
(* Which sessions the UI answers *)

\* the session and the status of every slot, in order
Shown(slots) ==
    [i \in 1..Len(slots) |-> <<slots[i].SessionID, slots[i].State>>]

\* C35: the UI writes a response only for a session that its most recently
\* applied read found with registry status "needs approval" and a fresh
\* heartbeat: a read gives a slot the state "needs approval" only on those
\* two facts, applying a read makes the displayed states those of the read,
\* nothing else changes them, and a response is issued only for the selected
\* slot and only when that slot's state is "needs approval".
C35_ResponseOnlyIfPending ==
    [][/\ ReadStep /\ ~abPendingSlots'.nil =>
             \A i \in 1..Len(abPendingSlots'.slots) :
                 abPendingSlots'.slots[i].State = "needs approval" =>
                     /\ NeedsApproval(abPendingSlots'.slots[i].SessionID)
                     /\ ~HbStale(abPendingSlots'.slots[i].SessionID)
       /\ IF Applies
          THEN Shown(abSlots') = Shown(abPendingSlots.slots)
          ELSE Shown(abSlots') = Shown(abSlots)
       /\ RespondStep =>
             /\ abSelectedSlot \in 1..Len(abSlots)
             /\ abSlots[abSelectedSlot].State = "needs approval"
             /\ \A w \in writers' \ writers :
                   w.sid = abSlots[abSelectedSlot].SessionID]_vars

\* a response is being written for the one session the UI shows, which its
\* read found "needs approval" with a fresh heartbeat
C35_Witness ==
    /\ nresponses > 0
    /\ Len(abSlots) = 1
    /\ abSlots[1].State = "needs approval"
    /\ \E w \in writers : w.sid = abSlots[1].SessionID

-----------------------------------------------------------------------------
(* A response file that is still being written *)

\* hook p polls while the response file of its session is created but not
\* yet written
PollsPartial(p) ==
    /\ hpc[p] = "read"
    /\ rspFile[hsid[p]] = PartialRsp
    /\ hpc'[p] # "read"

\* C36: a poll that finds the response file empty or truncated does not
\* delete it and does not decide: the hook sleeps again, or leaves without a
\* decision when the deadline has passed; a decision is printed only from a
\* response that parsed.
C36_NoPartialDecision ==
    [][\A p \in Hooks :
          /\ PollsPartial(p) =>
                /\ rspFile' = rspFile
                /\ hout'[p] = ""
                /\ hpc'[p] \in {"sleep", "timedout", "killed"}
                /\ hpc'[p] = "sleep" <=> (now < hdeadline[p] /\ ~KillStep)
          /\ hpc'[p] \in {"rmrsp", "clear", "resolved"} =>
                /\ hrsp'[p].kind = "doc"
                /\ hrsp'[p].behavior \in {"allow", "deny"}]_vars

\* a hook that the UI has answered has woken for a poll and reads the
\* response file while it is created but still empty
C36_Witness ==
    \E p \in Hooks :
        /\ hpc[p] = "read"
        /\ hanswered[p] > 0
        /\ rspFile[hsid[p]] = PartialRsp
        /\ hout[p] = ""

-----------------------------------------------------------------------------
(* The wait of a permission hook against the TTL pruning of upserts.  The   *)
(* hooks run their poll loop, the events of every session upsert, and the   *)
(* clock advances by a poll interval, by the permission deadline or by the  *)
(* session TTL.  A jump over several poll intervals stands for the polls in *)
(* between, which all miss: nothing else runs during the jump.              *)

MaxWaitTicks == 2

WaitJumps == {PollInterval, PermissionDeadline, SessionTTL * 1000}

\* time passes while every hook sleeps in time.Sleep (or is not running); a
\* sleeping hook is not yet due, and the poll it wakes for follows a loop
\* test time.Now().Before(deadline) that held one interval earlier
WaitAdvance ==
    /\ advances < MaxWaitTicks
    /\ \A p \in Hooks : hpc[p] \in {"idle", "sleep", "resolved", "timedout",
                                    "killed"}
    /\ \E d \in WaitJumps :
          /\ \A p \in Hooks :
                hpc[p] = "sleep" =>
                    /\ hwake[p] > now
                    /\ now + d - PollInterval < hdeadline[p]
          /\ now' = now + d
    /\ advances' = advances + 1
    /\ UNCHANGED <<regFile, callerVars, rvVars>>

NextWait ==
    \/ \E p \in Hooks, s \in RvSessions, tool \in ToolNames : StartHook(p, s, tool)
    \/ \E p \in Hooks : SetPending(p)
    \/ \E p \in Hooks : CreateHeartbeat(p)
    \/ \E p \in Hooks : Touch(p)
    \/ \E p \in Hooks : ReadMiss(p)
    \/ \E p \in Hooks : Timeout(p)
    \/ \E op \in {o \in Ops : o.kind = "upsert"} : RegistryCall(1, op)
    \/ WaitAdvance

SpecWait == InitReg /\ [][NextWait]_vars

\* C37: while a permission hook waits, the record of its session is at most
\* 600 seconds old, and no step (the upsert of another session included)
\* removes it from the registry.
C37_PendingNotPruned ==
    [][\A p \in Hooks :
          (Waiting(p) /\ hsid[p] \in DOMAIN Registry) =>
              /\ Age(Registry, hsid[p]) <= SessionTTL
              /\ hsid[p] \in DOMAIN Registry']_vars

\* a hook set its request pending on a record that was 600 seconds old and
\* has waited for the whole deadline; another session has upserted meanwhile
\* and the record of the waiting hook is still there
C37_Witness ==
    \E p \in Hooks :
        /\ hpc[p] = "read"
        /\ now >= hdeadline[p]
        /\ now >= (SessionTTL * 1000) + PermissionDeadline
        /\ hsid[p] \in DOMAIN Registry
        /\ Registry[hsid[p]].State = "needs approval"
        /\ rop[1].kind = "upsert" /\ rop[1].sid # hsid[p]
        /\ rop[1].sid \in DOMAIN Registry
        /\ Registry[rop[1].sid].UpdatedAt = Unix(now)

-----------------------------------------------------------------------------
(* Frame conditions of the four mutations *)

\* the record of session s keeps its project, message and window handle
KeepsIdentity(s) ==
    /\ s \in DOMAIN Registry'
    /\ Registry'[s].Project = Registry[s].Project
    /\ Registry'[s].Message = Registry[s].Message
    /\ Registry'[s].HWND = Registry[s].HWND

\* C38: remove, set_permission_pending and clear_permission_pending on
\* session s leave the record of every other session unchanged; set and
\* clear keep the project, message and window handle of s; an upsert on s
\* leaves unchanged the record of every other session that is at most 600
\* seconds old.
C38_Frame ==
    [][/\ (CallStep("remove") \/ CallStep("set") \/ CallStep("clear")) =>
              OthersUnchanged(rop'[1].sid)
       /\ ((CallStep("set") \/ CallStep("clear"))
              /\ rop'[1].sid \in DOMAIN Registry) =>
              KeepsIdentity(rop'[1].sid)
       /\ CallStep("upsert") =>
              \A id \in DOMAIN Registry \ {rop'[1].sid} :
                  Age(Registry, id) <= SessionTTL =>
                      /\ id \in DOMAIN Registry'
                      /\ Registry'[id] = Registry[id]]_vars

\* a clear has run on a record that carries a message and was pending, next
\* to the record of another session: the record is "working" and still has
\* its message
C38_Witness ==
    /\ rop[1].kind = "clear"
    /\ rop[1].sid \in DOMAIN rloaded[1]
    /\ rloaded[1][rop[1].sid].State = "needs approval"
    /\ DOMAIN Registry = Sessions
    /\ Registry[rop[1].sid].State = "working"
    /\ Registry[rop[1].sid].Message = "msg"
    /\ Registry[rop[1].sid].Project = rop[1].sid

-----------------------------------------------------------------------------
(* The two locks.  Each process runs one hook invocation through main():   *)
(* a PermissionRequest goes to handlePermissionRequest, a session_end      *)
(* removes the record, every other event loads the sound state under the   *)
(* flock on .state.json, saves it, and then upserts the record.  The       *)
(* registry calls run modifyActionBar one system call per step.            *)

\* the registry operations main() and handlePermissionRequest call
MainCalls == {"upsert", "remove", "set", "clear"}

\* the positions in which the process has nothing more to do
Exited(p) == mpc[p] = "exit"

\* main() reads the event: PermissionRequest is intercepted, session_end
\* removes, the other events go on to loadStateLocked
MainBegin(p, first) ==
    /\ mpc[p] = "idle"
    /\ mpc' = [mpc EXCEPT ![p] = first]
    /\ UNCHANGED <<now, advances, regFile, callerVars, rspFile, hbFile,
                   hookVars, uiVars, npolls, nevents, lastEvent,
                   agentSessions, stateLock>>

\* loadStateLocked: syscall.Flock(LOCK_EX) on .state.json blocks until no
\* other process holds it
LoadStateLocked(p) ==
    /\ mpc[p] = "loadState"
    /\ stateLock = 0
    /\ stateLock' = p
    /\ mpc' = [mpc EXCEPT ![p] = "stateLocked"]
    /\ UNCHANGED <<now, advances, regFile, callerVars, rspFile, hbFile,
                   hookVars, uiVars, npolls, nevents, lastEvent,
                   agentSessions>>

\* loadStateLocked returns an error (open or flock failed): os.Exit(0)
LoadStateFails(p) ==
    /\ mpc[p] = "loadState"
    /\ mpc' = [mpc EXCEPT ![p] = "exit"]
    /\ UNCHANGED <<now, advances, regFile, callerVars, rspFile, hbFile,
                   hookVars, uiVars, npolls, nevents, lastEvent,
                   agentSessions, stateLock>>

\* session_start: captureWindowHandle() runs the helper and takes its
\* output, under the state lock; the helper takes no lock and returns
CaptureWindowHandle(p) ==
    /\ mpc[p] = "stateLocked"
    /\ mpc' = [mpc EXCEPT ![p] = "started"]
    /\ UNCHANGED <<now, advances, regFile, callerVars, rspFile, hbFile,
                   hookVars, uiVars, npolls, nevents, lastEvent,
                   agentSessions, stateLock>>

\* a main() that keeps the state lock while it upserts
SaveStateUnlockLate(p, next) ==
    /\ mpc[p] \in {"stateLocked", "started"}
    /\ mpc' = [mpc EXCEPT ![p] = next]
    /\ stateLock' = IF next = "exit" THEN 0 ELSE stateLock
    /\ UNCHANGED <<now, advances, regFile, callerVars, rspFile, hbFile,
                   hookVars, uiVars, npolls, nevents, lastEvent,
                   agentSessions>>

\* ls.saveStateUnlock: on the agent path followed by os.Exit(0), otherwise
\* followed by writeActionBarSession when there is a session and a status
SaveStateUnlock(p, next) ==
    /\ mpc[p] \in {"stateLocked", "started"}
    /\ stateLock' = 0
    /\ mpc' = [mpc EXCEPT ![p] = next]
    /\ UNCHANGED <<now, advances, regFile, callerVars, rspFile, hbFile,
                   hookVars, uiVars, npolls, nevents, lastEvent,
                   agentSessions>>

\* the process enters modifyActionBar for the operation it has come to
MainCall(p, op) ==
    /\ mpc[p] = op.kind
    /\ Call(p, op)

\* where main() or handlePermissionRequest goes when the call returns:
\* after set_permission_pending the poll loop, otherwise os.Exit(0)
AfterCall(kind) == IF kind = "set" THEN "sleep" ELSE "exit"

\* modifyActionBar returns
MainReturn(p) ==
    /\ mpc[p] \in MainCalls
    /\ rpc[p] = "done"
    /\ rpc' = [rpc EXCEPT ![p] = "idle"]
    /\ mpc' = [mpc EXCEPT ![p] = AfterCall(mpc[p])]
    /\ UNCHANGED <<now, advances, regFile, tmpFile, lockHolder, rop, rabs,
                   rloaded, racquired, rcalledAt, persisted, uiRaw, uiMid,
                   rspFile, hbFile, hookVars, uiVars, npolls, nevents,
                   lastEvent, agentSessions, stateLock>>

\* the poll loop of handlePermissionRequest ends: with a response it goes
\* on to clearActionBarPermission, at the deadline it exits
PollLoopEnds(p, next) ==
    /\ mpc[p] = "sleep"
    /\ mpc' = [mpc EXCEPT ![p] = next]
    /\ UNCHANGED <<now, advances, regFile, callerVars, rspFile, hbFile,
                   hookVars, uiVars, npolls, nevents, lastEvent,
                   agentSessions, stateLock>>

\* the steps of process p that the scheduler runs whenever they can be taken
MainStep(p) ==
    \/ \E first \in {"set", "remove", "loadState"} : MainBegin(p, first)
    \/ LoadStateLocked(p)
    \/ CaptureWindowHandle(p)
    \/ \E next \in {"upsert", "exit"} : SaveStateUnlock(p, next)
    \/ \E op \in Ops : MainCall(p, op)
    \/ Flock(p)
    \/ LoadAndApply(p)
    \/ WriteTmpOpen(p)
    \/ WriteTmpData(p)
    \/ Rename(p)
    \/ Unlock(p)
    \/ MainReturn(p)
    \/ \E next \in {"clear", "exit"} : PollLoopEnds(p, next)

NextLocks ==
    \/ \E p \in Callers : MainStep(p)
    \/ \E p \in Callers : LoadStateFails(p)
    \/ \E p \in Callers : LockFail(p)

\* every running process is scheduled; the kernel hands a free flock to a
\* process blocked on it
SpecLocks ==
    InitReg /\ [][NextLocks]_vars /\ \A p \in Callers : WF_vars(MainStep(p))

\* process p holds the flock on .actionbar.lock
HoldsRegistryLock(p) == lockHolder = p

\* process p is blocked: in time.Sleep of the poll loop, or in a blocking
\* flock for a lock another process holds
InSleep(p) == mpc[p] = "sleep"
AwaitsRegistryLock(p) == rpc[p] = "open"
AwaitsStateLock(p) == mpc[p] = "loadState"

-----------------------------------------------------------------------------
(* The UI polls a registry whose records age: the hooks of the sessions    *)
(* upsert, the clock jumps by a second or by the session TTL, and no       *)
(* upsert need come to prune a record that has grown old.                  *)

NextStale ==
    \/ \E op \in {o \in UIOps : o.kind = "upsert"} : RegistryCall(1, op)
    \/ AdvanceReg
    \/ TimerWithin(MaxUIPolls)
    \/ BgRead
    \/ ApplyPending

SpecStale == InitReg /\ [][NextStale]_vars

\* the background read ends in this step
ReadEnds == abBgRunning = 1 /\ abBgRunning' = 0

=============================================================================
